---------------------------- MODULE Spec2Model ----------------------------
(***************************************************************************)
(* A model of functions/main.py: the storage-triggered handler             *)
(* transcribe_audio and the two lazily created client handles it shares    *)
(* with every other invocation running in the same hosting process.        *)
(*                                                                         *)
(* Conventions.                                                            *)
(*   - A Python str is a sequence of one-character strings, so that        *)
(*     startswith, split and lower are computed and not assumed.  The      *)
(*     transcripts, which the code only joins, stay TLA+ strings.          *)
(*   - An optional value is a sequence of length at most one: <<>> is      *)
(*     None and <<v>> is the value v.                                      *)
(*   - A float number of seconds is held in milliseconds.                  *)
(*   - A client object is named by the invocation that constructed it.     *)
(***************************************************************************)
EXTENDS Integers, Sequences, FiniteSets, TLC

(***************************************************************************)
(* Bounds of the model.                                                    *)
(***************************************************************************)
NumInvocations == 2
MaxResults == 2
MaxWords == 2

Invocations == 1..NumInvocations

\* The worker threads of the hosting process: each runs one invocation at a
\* time, so that at most this many invocations are in flight together.
WorkerThreads == {"worker-1", "worker-2"}

(***************************************************************************)
(* Sentinels for Python's None.                                            *)
(***************************************************************************)
NoClient == 0
NoSpeaker == -1
None == <<>>

Some(v) == <<v>>

(***************************************************************************)
(* Python strings.                                                         *)
(***************************************************************************)
AUDIO_PREFIX == <<"a", "u", "d", "i", "o", "/">>
TXT_SUFFIX == <<".", "t", "x", "t">>
TURNS_SUFFIX == <<"_", "s", "p", "e", "a", "k", "e", "r", "_",
                  "t", "u", "r", "n", "s", ".", "j", "s", "o", "n">>

\* str.startswith
StartsWith(s, prefix) ==
    /\ Len(s) >= Len(prefix)
    /\ SubSeq(s, 1, Len(prefix)) = prefix

\* bool(x) of an optional str: None and "" are both false
Truthy(opt) == Len(opt) = 1 /\ Len(opt[1]) > 0

\* s.split('.')[-1]: the part of s after its last '.', all of s without one
RECURSIVE LastSegment(_)
LastSegment(s) ==
    IF \A k \in 1..Len(s) : s[k] # "."
    THEN s
    ELSE LastSegment(Tail(s))

\* the lower-case form of a character, over the letters the notifications use
LowerChar(c) ==
    CASE c = "A" -> "a"
      [] c = "V" -> "v"
      [] c = "W" -> "w"
      [] OTHER -> c

\* str.lower
Lower(s) == [k \in 1..Len(s) |-> LowerChar(s[k])]

SAMPLE_RATES ==
    [ext \in { <<"w", "a", "v">>, <<"f", "l", "a", "c">>, <<"m", "p", "3">>,
               <<"o", "g", "g">>, <<"w", "e", "b", "m">>, <<"m", "4", "a">> } |->
        IF ext \in { <<"m", "p", "3">>, <<"m", "4", "a">> }
        THEN <<44100, 48000>>
        ELSE <<16000, 44100, 48000>>]

get_sample_rate(file_extension) ==
    IF Lower(file_extension) \in DOMAIN SAMPLE_RATES
    THEN SAMPLE_RATES[Lower(file_extension)]
    ELSE <<16000>>

(***************************************************************************)
(* The notifications the platform delivers.                                *)
(***************************************************************************)
BUCKET == <<"b">>
WAV_NAME == <<"a", ".", "W", "A", "V">>
AUDIO_WAV == <<"a", "u", "d", "i", "o", "/", "w", "a", "v">>
AUDIO_NO_SLASH == <<"a", "u", "d", "i", "o">>
TEXT_PLAIN == <<"t", "e", "x", "t", "/", "p", "l", "a", "i", "n">>

\* name: absent, empty, present
FileNames == {None, Some(<<>>), Some(WAV_NAME)}
\* content_type: absent, empty, audio, near miss, other
ContentTypes == {None, Some(<<>>), Some(AUDIO_WAV), Some(AUDIO_NO_SLASH),
                 Some(TEXT_PLAIN)}

Events == [bucket : {BUCKET}, name : FileNames, content_type : ContentTypes]

\* One notification of each kind: without a name, not audio, audio.
\* An audio upload.
AudioEvents ==
    {[bucket |-> BUCKET, name |-> Some(WAV_NAME), content_type |-> Some(AUDIO_WAV)]}

\* One notification the filter rejects and one it lets through.
CoreEvents ==
    {[bucket |-> BUCKET, name |-> Some(WAV_NAME), content_type |-> Some(TEXT_PLAIN)],
     [bucket |-> BUCKET, name |-> Some(WAV_NAME), content_type |-> Some(AUDIO_WAV)]}

NoEvent == [bucket |-> <<>>, name |-> None, content_type |-> None]


(***************************************************************************)
(* The recognition responses the service returns.  A response is a         *)
(* sequence of results; a result holds a sequence of alternatives; an      *)
(* alternative holds a transcript and a sequence of words.  The k-th word  *)
(* of a response (counted over the top alternatives, from 0) is spoken     *)
(* from k seconds to k seconds and a half, so that the end of a word and   *)
(* the start of the next one differ.                                       *)
(***************************************************************************)
SpeakerTags == {1, 2}

Duration(halves) ==
    [seconds |-> halves \div 2, nanos |-> (halves % 2) * 500000000]

Word(k, tag) ==
    [speaker_tag |-> tag,
     start_time |-> Duration(2 * k),
     end_time |-> Duration(2 * k + 1)]

WordsFrom(k, tags) == [j \in 1..Len(tags) |-> Word(k + j - 1, tags[j])]

\* A lower-ranked alternative, which the code must never read.
LOWER_RANKED ==
    [transcript |-> "low", words |-> <<[speaker_tag |-> 3,
                                        start_time |-> Duration(0),
                                        end_time |-> Duration(9)]>>]

\* What a result is built from: how many alternatives it has and the
\* speaker tags of the words of the top one.
ResultShapes(maxWords) ==
    {[alts |-> 0, tags |-> <<>>]} \cup
    [alts : {1, 2},
     tags : UNION {[1..n -> SpeakerTags] : n \in 0..maxWords}]

Result(shape, k) ==
    [alternatives |->
        CASE shape.alts = 0 -> <<>>
          [] shape.alts = 1 ->
                <<[transcript |-> "hello", words |-> WordsFrom(k, shape.tags)]>>
          [] OTHER ->
                <<[transcript |-> "world", words |-> WordsFrom(k, shape.tags)],
                  LOWER_RANKED>>]

RECURSIVE ResultsFrom(_, _)
ResultsFrom(shapes, k) ==
    IF shapes = <<>>
    THEN <<>>
    ELSE <<Result(Head(shapes), k)>>
            \o ResultsFrom(Tail(shapes), k + Len(Head(shapes).tags))

Response(shapes) == [results |-> ResultsFrom(shapes, 0)]

\* Every response of at most maxResults results of at most maxWords words.
Responses ==
    {Response(shapes) :
        shapes \in UNION {[1..n -> ResultShapes(MaxWords)] : n \in 0..MaxResults}}

\* One response: a single result of two words, one per speaker.
CoreResponses == {Response(<<[alts |-> 1, tags |-> <<1, 2>>]>>)}

(***************************************************************************)
(* transcribe_audio, lines 111-147: the loop over the results.             *)
(***************************************************************************)
\* seconds + nanos * 1e-9, in milliseconds
ToSeconds(d) == d.seconds * 1000 + d.nanos \div 1000000

\* lines 112-116
LoopStart ==
    [transcript_parts |-> <<>>,
     speaker_turns |-> <<>>,
     current_speaker |-> NoSpeaker,
     turn_start_time |-> None,
     word_info |-> None,
     raised |-> FALSE]

\* lines 124-137: the body of the loop over the words
WordStep(st, word_info) ==
    LET speaker_tag == word_info.speaker_tag
    IN  IF speaker_tag # st.current_speaker
        THEN [st EXCEPT
                !.speaker_turns =
                    IF st.current_speaker # NoSpeaker
                    THEN Append(@, [speaker |-> st.current_speaker,
                                    start_time |-> st.turn_start_time[1],
                                    end_time |-> ToSeconds(word_info.start_time)])
                    ELSE @,
                !.current_speaker = speaker_tag,
                !.turn_start_time = Some(ToSeconds(word_info.start_time)),
                !.word_info = Some(word_info)]
        ELSE [st EXCEPT !.word_info = Some(word_info)]

\* line 123: for word_info in result.alternatives[0].words
RECURSIVE WordLoop(_, _)
WordLoop(st, words) ==
    IF words = <<>>
    THEN st
    ELSE WordLoop(WordStep(st, Head(words)), Tail(words))

\* LastTurn without the test of line 140.
LastTurn_Unguarded(st) ==
    IF st.word_info = None
    THEN [st EXCEPT !.raised = TRUE]
    ELSE [st EXCEPT
            !.speaker_turns =
                Append(@, [speaker |-> st.current_speaker,
                           start_time |-> st.turn_start_time[1],
                           end_time |-> ToSeconds(st.word_info[1].end_time)])]

\* lines 139-145: the turn appended after the words of a result.  word_info
\* is the loop variable of line 123, left at the last word any result had;
\* reading it before any word was seen raises UnboundLocalError.
LastTurn(st) ==
    IF st.current_speaker # NoSpeaker
    THEN IF st.word_info = None
         THEN [st EXCEPT !.raised = TRUE]
         ELSE [st EXCEPT
                !.speaker_turns =
                    Append(@, [speaker |-> st.current_speaker,
                               start_time |-> st.turn_start_time[1],
                               end_time |-> ToSeconds(st.word_info[1].end_time)])]
    ELSE st

\* line 120
AppendTranscript(st, result) ==
    [st EXCEPT !.transcript_parts = Append(@, result.alternatives[1].transcript)]

\* lines 119-145: the body of the loop over the results
ResultStep(st, result) ==
    IF st.raised
    THEN st
    ELSE IF Len(result.alternatives) > 0
    THEN LastTurn(WordLoop(AppendTranscript(st, result),
                           result.alternatives[1].words))
    ELSE st

\* line 118: for result in response.results
RECURSIVE ResultLoop(_, _)
ResultLoop(st, results) ==
    IF results = <<>>
    THEN st
    ELSE ResultLoop(ResultStep(st, Head(results)), Tail(results))

\* str.join
RECURSIVE Join(_, _)
Join(sep, parts) ==
    IF parts = <<>>
    THEN ""
    ELSE IF Len(parts) = 1
         THEN parts[1]
         ELSE parts[1] \o sep \o Join(sep, Tail(parts))

\* FullTranscript joining with a space.
FullTranscript_Spaces(transcript_parts) == Join(" ", transcript_parts)

\* line 147
FullTranscript(transcript_parts) == Join("\n", transcript_parts)

\* line 168: json.dumps({'speaker_turns': speaker_turns}), held as the object
\* it serialises
TurnsDocument(speaker_turns) == [speaker_turns |-> speaker_turns]

(***************************************************************************)
(* The state of one hosting process and of the services it talks to.       *)
(***************************************************************************)
VARIABLES
    speech_client,            \* the module global, NoClient while None
    storage_client,           \* the module global, NoClient while None
    pc,                       \* where each invocation stands
    event,                    \* the notification each invocation was given
    speech_client_instance,   \* local of transcribe_audio
    storage_client_instance,  \* local of transcribe_audio
    response,                 \* local of transcribe_audio
    full_transcript,          \* local of transcribe_audio
    speaker_turns,            \* local of transcribe_audio
    exception,                \* what an invocation raised, "" while nothing
    calls,                    \* the requests each invocation sent the recogniser
    store,                    \* the objects each invocation wrote, by object name
    log                       \* the records each invocation logged

vars == <<speech_client, storage_client, pc, event, speech_client_instance,
          storage_client_instance, response, full_transcript, speaker_turns,
          exception, calls, store, log>>

globals == <<speech_client, storage_client>>
locals == <<speech_client_instance, storage_client_instance, response,
            full_transcript, speaker_turns>>

Init ==
    /\ speech_client = NoClient
    /\ storage_client = NoClient
    /\ pc = [i \in Invocations |-> "idle"]
    /\ event = [i \in Invocations |-> NoEvent]
    /\ speech_client_instance = [i \in Invocations |-> NoClient]
    /\ storage_client_instance = [i \in Invocations |-> NoClient]
    /\ response = [i \in Invocations |-> None]
    /\ full_transcript = [i \in Invocations |-> ""]
    /\ speaker_turns = [i \in Invocations |-> <<>>]
    /\ exception = [i \in Invocations |-> ""]
    /\ calls = [i \in Invocations |-> <<>>]
    /\ store = <<>>
    /\ log = [i \in Invocations |-> <<>>]

Goto(i, label) == pc' = [pc EXCEPT ![i] = label]
Logging(i, record) == log' = [log EXCEPT ![i] = Append(@, record)]
LoggingAll(i, records) == log' = [log EXCEPT ![i] = @ \o records]
\* Raise with the exception caught: the handler goes on to the writes.
Raise_Swallowed(i, what) ==
    /\ exception' = [exception EXCEPT ![i] = what]
    /\ Goto(i, "save_transcript")

\* an exception nothing catches: it leaves transcribe_audio
Raise(i, what) ==
    /\ exception' = [exception EXCEPT ![i] = what]
    /\ Goto(i, "raised")

InFlight == {j \in Invocations : pc[j] \notin {"idle", "returned", "raised"}}

\* line 50: the platform calls transcribe_audio with a notification, on one
\* of the `threads` free threads
Trigger(i, events, threads) ==
    /\ pc[i] = "idle"
    /\ Cardinality(InFlight) < threads
    /\ \E e \in events : event' = [event EXCEPT ![i] = e]
    /\ Goto(i, "get_speech_client")
    /\ UNCHANGED <<globals, locals, exception, calls, store, log>>

\* line 28 (called at line 52): if speech_client is None
GetSpeechClient(i) ==
    /\ pc[i] = "get_speech_client"
    /\ IF speech_client = NoClient
       THEN Goto(i, "init_speech_client")
       ELSE Goto(i, "return_speech_client")
    /\ UNCHANGED <<globals, event, locals, exception, calls, store, log>>

\* lines 29-30: the construction and the assignment to the global
InitSpeechClient(i) ==
    /\ pc[i] = "init_speech_client"
    /\ Logging(i, "Initializing SpeechClient...")
    /\ speech_client' = i
    /\ Goto(i, "return_speech_client")
    /\ UNCHANGED <<storage_client, event, locals, exception, calls, store>>

\* lines 31 and 52: the global is read again and returned
ReturnSpeechClient(i) ==
    /\ pc[i] = "return_speech_client"
    /\ speech_client_instance' =
            [speech_client_instance EXCEPT ![i] = speech_client]
    /\ Goto(i, "get_storage_client")
    /\ UNCHANGED <<globals, event, storage_client_instance, response,
                   full_transcript, speaker_turns, exception, calls, store, log>>

\* line 37 (called at line 53): if storage_client is None
GetStorageClient(i) ==
    /\ pc[i] = "get_storage_client"
    /\ IF storage_client = NoClient
       THEN Goto(i, "init_storage_client")
       ELSE Goto(i, "return_storage_client")
    /\ UNCHANGED <<globals, event, locals, exception, calls, store, log>>

\* lines 38-39
InitStorageClient(i) ==
    /\ pc[i] = "init_storage_client"
    /\ Logging(i, "Initializing StorageClient...")
    /\ storage_client' = i
    /\ Goto(i, "return_storage_client")
    /\ UNCHANGED <<speech_client, event, locals, exception, calls, store>>

\* lines 40 and 53
ReturnStorageClient(i) ==
    /\ pc[i] = "return_storage_client"
    /\ storage_client_instance' =
            [storage_client_instance EXCEPT ![i] = storage_client]
    /\ Goto(i, "filter")
    /\ UNCHANGED <<globals, event, speech_client_instance, response,
                   full_transcript, speaker_turns, exception, calls, store, log>>

\* NoFileName testing for None alone.
NoFileName_NoneOnly(e) == e.name = None

\* line 60: if not file_name
NoFileName(e) == ~Truthy(e.name)

\* NonAudio testing the prefix without its slash.
NonAudio_NoSlash(e) ==
    Truthy(e.content_type) /\ ~StartsWith(e.content_type[1], AUDIO_NO_SLASH)

\* NonAudio letting every content type through.
NonAudio_Never(e) == FALSE

\* line 67: if content_type and not content_type.startswith('audio/')
NonAudio(e) ==
    Truthy(e.content_type) /\ ~StartsWith(e.content_type[1], AUDIO_PREFIX)

\* lines 72-73
AvailableSampleRates(e) == get_sample_rate(LastSegment(e.name[1]))

\* lines 56-77: the three early returns
Filter(i) ==
    /\ pc[i] = "filter"
    /\ IF NoFileName(event[i])
       THEN /\ Logging(i, "No file name provided in the event.")
            /\ Goto(i, "returned")
       ELSE IF NonAudio(event[i])
       THEN /\ LoggingAll(i, <<"Processing file", "Skipping non-audio file">>)
            /\ Goto(i, "returned")
       ELSE IF AvailableSampleRates(event[i]) = <<>>
       THEN /\ LoggingAll(i, <<"Processing file", "No valid sample rate found">>)
            /\ Goto(i, "returned")
       ELSE /\ Logging(i, "Processing file")
            /\ Goto(i, "long_running_recognize")
    /\ UNCHANGED <<globals, event, locals, exception, calls, store>>

\* lines 80-102: the request sent to the recogniser
RecognitionRequest(i) ==
    [client |-> speech_client_instance[i],
     uri |-> <<"g", "s", ":", "/", "/">> \o event[i].bucket \o <<"/">>
                \o event[i].name[1],
     sample_rate_hertz |-> AvailableSampleRates(event[i])[1],
     diarization_speaker_count |-> 2]

\* lines 105-108: the call is sent, and either returns an operation or raises
LongRunningRecognize(i) ==
    /\ pc[i] = "long_running_recognize"
    /\ calls' = [calls EXCEPT ![i] = Append(@, RecognitionRequest(i))]
    /\ \/ /\ LoggingAll(i, <<"Sending to Speech-to-Text", "Waiting">>)
          /\ Goto(i, "result")
          /\ UNCHANGED exception
       \/ /\ Logging(i, "Sending to Speech-to-Text")
          /\ Raise(i, "recognize failed")
    /\ UNCHANGED <<globals, event, locals, store>>

\* line 109: operation.result(timeout=300) returns the response, or raises
\* because the operation failed or the wait timed out
OperationResult(i, responses) ==
    /\ pc[i] = "result"
    /\ \/ /\ \E r \in responses : response' = [response EXCEPT ![i] = Some(r)]
          /\ Goto(i, "process")
          /\ UNCHANGED exception
       \/ /\ \E what \in {"operation failed", "timeout"} : Raise(i, what)
          /\ UNCHANGED response
    /\ UNCHANGED <<globals, event, speech_client_instance,
                   storage_client_instance, full_transcript, speaker_turns,
                   calls, store, log>>

\* lines 112-149
ProcessResults(i) ==
    /\ pc[i] = "process"
    /\ LET st == ResultLoop(LoopStart, response[i][1].results)
       IN  IF st.raised
           THEN /\ Raise(i, "UnboundLocalError")
                /\ UNCHANGED <<full_transcript, speaker_turns, log>>
           ELSE /\ full_transcript' =
                      [full_transcript EXCEPT
                          ![i] = FullTranscript(st.transcript_parts)]
                /\ speaker_turns' =
                      [speaker_turns EXCEPT ![i] = st.speaker_turns]
                /\ Logging(i, "Transcription complete")
                /\ Goto(i, "save_transcript")
                /\ UNCHANGED exception
    /\ UNCHANGED <<globals, event, speech_client_instance,
                   storage_client_instance, response, calls, store>>

\* blob.upload_from_string: the object is created or overwritten
Upload(objects, name, body, content_type) ==
    [n \in DOMAIN objects \cup {name} |->
        IF n = name
        THEN [body |-> body, content_type |-> content_type]
        ELSE objects[n]]

TranscriptName(e) == e.name[1] \o TXT_SUFFIX
TimestampName(e) == e.name[1] \o TURNS_SUFFIX

\* SaveTranscript without the try of line 156: a failed write leaves the
\* handler.
SaveTranscript_Uncaught(i) ==
    /\ pc[i] = "save_transcript"
    /\ \/ /\ store' = Upload(store, TranscriptName(event[i]),
                             full_transcript[i], "text/plain")
          /\ Logging(i, "Transcript saved")
          /\ Goto(i, "save_speaker_turns")
          /\ UNCHANGED exception
       \/ /\ Raise(i, "upload failed")
          /\ UNCHANGED <<store, log>>
    /\ UNCHANGED <<globals, event, locals, calls>>

\* lines 152-160: the write succeeds, or raises and is logged
SaveTranscript(i) ==
    /\ pc[i] = "save_transcript"
    /\ \/ /\ store' = Upload(store, TranscriptName(event[i]),
                             full_transcript[i], "text/plain")
          /\ Logging(i, "Transcript saved")
       \/ /\ Logging(i, "Failed to save transcript")
          /\ UNCHANGED store
    /\ Goto(i, "save_speaker_turns")
    /\ UNCHANGED <<globals, event, locals, exception, calls>>

\* lines 163-175
SaveSpeakerTurns(i) ==
    /\ pc[i] = "save_speaker_turns"
    /\ \/ /\ store' = Upload(store, TimestampName(event[i]),
                             TurnsDocument(speaker_turns[i]), "application/json")
          /\ LoggingAll(i, <<"Speaker turns saved", "Finished processing">>)
       \/ /\ LoggingAll(i, <<"Failed to save speaker turns",
                              "Finished processing">>)
          /\ UNCHANGED store
    /\ Goto(i, "returned")
    /\ UNCHANGED <<globals, event, locals, exception, calls>>

\* One step of invocation i, given the notifications and the responses
\* its environment may produce.
Step(i, events, responses, threads) ==
    \/ Trigger(i, events, threads)
    \/ GetSpeechClient(i)
    \/ InitSpeechClient(i)
    \/ ReturnSpeechClient(i)
    \/ GetStorageClient(i)
    \/ InitStorageClient(i)
    \/ ReturnStorageClient(i)
    \/ Filter(i)
    \/ LongRunningRecognize(i)
    \/ OperationResult(i, responses)
    \/ ProcessResults(i)
    \/ SaveTranscript(i)
    \/ SaveSpeakerTurns(i)

\* The hosting process: its invocations run concurrently on the worker
\* threads, each on one of two notifications.
Next ==
    \E i \in Invocations :
        Step(i, CoreEvents, CoreResponses, Cardinality(WorkerThreads))

Spec == Init /\ [][Next]_vars

\* The hosting process serving one invocation after the other, the first on
\* a cold process and the later ones on a warm one, over every notification.
NextFilter == \E i \in Invocations : Step(i, Events, CoreResponses, 1)

SpecFilter == Init /\ [][NextFilter]_vars

\* One invocation of an audio upload, over every response.
NextOne == Step(1, AudioEvents, Responses, 1)

SpecOne == Init /\ [][NextOne]_vars

(***************************************************************************)
(* What the claims speak of.                                               *)
(***************************************************************************)
Logged(i, record) == \E k \in 1..Len(log[i]) : log[i][k] = record

\* The invocation has a response and has run the loop over it.
Processed(i) == pc[i] \in {"save_transcript", "save_speaker_turns", "returned"}

\* The words of the top alternatives of the results, in order.
RECURSIVE TopWords(_)
TopWords(results) ==
    IF results = <<>>
    THEN <<>>
    ELSE (IF Head(results).alternatives = <<>>
          THEN <<>>
          ELSE Head(results).alternatives[1].words) \o TopWords(Tail(results))

\* The positions at which a maximal run of equal speaker tags starts.
RunStarts(words) ==
    {k \in 1..Len(words) :
        k = 1 \/ words[k].speaker_tag # words[k - 1].speaker_tag}

\* The turn of the run that starts at position k: it ends where the next run
\* starts, and the last one at the end of the last word.
RunTurn(words, k) ==
    LET later == {j \in RunStarts(words) : j > k}
    IN  [speaker |-> words[k].speaker_tag,
         start_time |-> ToSeconds(words[k].start_time),
         end_time |->
            IF later = {}
            THEN ToSeconds(words[Len(words)].end_time)
            ELSE ToSeconds(words[CHOOSE j \in later :
                                    \A m \in later : j <= m].start_time)]

\* The turns of the maximal runs, in order.
MaximalRuns(words) ==
    LET starts == RunStarts(words)
        nth[n \in 1..Cardinality(starts)] ==
            CHOOSE k \in starts : Cardinality({j \in starts : j < k}) = n - 1
    IN  [n \in 1..Cardinality(starts) |-> RunTurn(words, nth[n])]

\* C1: the speaker turns transcribe_audio emits are, in order, the maximal
\* runs of equal speakerTag over the words of all the results' top
\* alternatives: a non-final turn ends at the start of the next run's first
\* word, and exactly one final turn ends at the end of the last word.
C1_TurnsAreTheMaximalRuns ==
    \A i \in Invocations :
        Processed(i) =>
            speaker_turns[i] = MaximalRuns(TopWords(response[i][1].results))

\* C2: when every word carries the same speakerTag and there is at least one
\* word, exactly one turn is emitted, from the first word's start to the last
\* word's end, however the words are spread over the results.
C2_OneSpeakerOneTurn ==
    \A i \in Invocations :
        Processed(i) =>
            LET words == TopWords(response[i][1].results)
            IN  (/\ words # <<>>
                 /\ \A k \in 1..Len(words) :
                        words[k].speaker_tag = words[1].speaker_tag)
                => speaker_turns[i] =
                     <<[speaker |-> words[1].speaker_tag,
                        start_time |-> ToSeconds(words[1].start_time),
                        end_time |-> ToSeconds(words[Len(words)].end_time)]>>

\* The two writes, as the log of lines 158-160 and 171-173 records them.
TranscriptWritten(i) == Logged(i, "Transcript saved")
TranscriptFailed(i) == Logged(i, "Failed to save transcript")
TurnsWritten(i) == Logged(i, "Speaker turns saved")
TurnsFailed(i) == Logged(i, "Failed to save speaker turns")
TranscriptAttempted(i) == TranscriptWritten(i) \/ TranscriptFailed(i)
TurnsAttempted(i) == TurnsWritten(i) \/ TurnsFailed(i)

HasObject(name) == name \in DOMAIN store

\* C8: when the response holds no word at all (no results, results without
\* alternatives, or top alternatives without words), the loop raises nothing
\* and emits no turn, and the speaker-turns object is still written, with an
\* empty array of turns (when the store takes the write).
C8_NoWordsNoTurns ==
    \A i \in Invocations :
        (response[i] # None /\ TopWords(response[i][1].results) = <<>>) =>
            /\ exception[i] = ""
            /\ pc[i] # "raised"
            /\ speaker_turns[i] = <<>>
            /\ pc[i] = "returned" =>
                /\ TurnsAttempted(i)
                /\ TurnsWritten(i) =>
                    /\ HasObject(TimestampName(event[i]))
                    /\ store[TimestampName(event[i])] =
                          [body |-> [speaker_turns |-> <<>>],
                           content_type |-> "application/json"]

\* A response of two results, one without alternatives and one whose top
\* alternative has no words, was processed and the empty array written.
C8_Witness ==
    \E i \in Invocations :
        /\ pc[i] = "returned"
        /\ response[i] # None
        /\ Len(response[i][1].results) = 2
        /\ response[i][1].results[1].alternatives = <<>>
        /\ response[i][1].results[2].alternatives # <<>>
        /\ TopWords(response[i][1].results) = <<>>
        /\ TurnsWritten(i)
        /\ store[TimestampName(event[i])].body = [speaker_turns |-> <<>>]

\* The top-alternative transcripts of the results that have an alternative.
TopTranscripts(results) ==
    LET having == SelectSeq(results, LAMBDA r : r.alternatives # <<>>)
    IN  [k \in 1..Len(having) |-> having[k].alternatives[1].transcript]

\* The lines of a text, each but the last followed by a newline.
Lines(parts) ==
    LET upto[k \in 0..Len(parts)] ==
            IF k = 0
            THEN ""
            ELSE upto[k - 1] \o parts[k] \o (IF k < Len(parts) THEN "\n" ELSE "")
    IN  upto[Len(parts)]

\* C9: the transcript is the newline-joined top-alternative transcripts of
\* the results that have an alternative, in order ("hello" and "world" give
\* "hello\nworld", no results give ""), and it is what {name}.txt holds once
\* written; the write is attempted even when it is empty.
C9_TranscriptIsNewlineJoined ==
    \A i \in Invocations :
        Processed(i) =>
            LET parts == TopTranscripts(response[i][1].results)
            IN  /\ full_transcript[i] = Lines(parts)
                /\ parts = <<"hello", "world">> =>
                        full_transcript[i] = "hello\nworld"
                /\ response[i][1].results = <<>> => full_transcript[i] = ""
                /\ pc[i] # "save_transcript" => TranscriptAttempted(i)
                /\ TranscriptWritten(i) =>
                    /\ HasObject(TranscriptName(event[i]))
                    /\ store[TranscriptName(event[i])] =
                          [body |-> Lines(parts), content_type |-> "text/plain"]

\* Two results, "hello" and "world": the object written holds the two lines.
C9_Witness ==
    \E i \in Invocations :
        /\ pc[i] = "returned"
        /\ TranscriptWritten(i)
        /\ Len(response[i][1].results) = 2
        /\ TopTranscripts(response[i][1].results) = <<"hello", "world">>
        /\ store[TranscriptName(event[i])].body = "hello\nworld"

\* C6: a notification whose object name is empty or absent makes the
\* invocation return normally, with no recognition call and no write: none
\* of its steps touches the store.
C6_NoNameNoCallNoWrite ==
    /\ [](\A i \in Invocations :
            (pc[i] # "idle" /\ ~Truthy(event[i].name)) =>
                /\ calls[i] = <<>>
                /\ ~TranscriptAttempted(i) /\ ~TurnsAttempted(i)
                /\ exception[i] = ""
                /\ pc[i] \in {"get_speech_client", "init_speech_client",
                              "return_speech_client", "get_storage_client",
                              "init_storage_client", "return_storage_client",
                              "filter", "returned"})
    /\ [][\A i \in Invocations :
            (pc'[i] # pc[i] /\ ~Truthy(event'[i].name)) => store' = store]_vars

\* An invocation given the empty name has returned with the warning logged.
C6_Witness ==
    \E i \in Invocations :
        /\ pc[i] = "returned"
        /\ event[i].name = Some(<<>>)
        /\ Logged(i, "No file name provided in the event.")
        /\ calls[i] = <<>>
        /\ store = <<>>

\* The content type is there and does not start with "audio/".
PresentNotAudio(e) ==
    /\ e.content_type # None
    /\ ~StartsWith(e.content_type[1], AUDIO_PREFIX)

\* The invocation returned at one of the filter's early returns.
FilteredOut(i) == pc[i] = "returned" /\ calls[i] = <<>>

\* C5, as stated: no notification whose contentType does not start with
\* "audio/" reaches the recognition call.
C5_NotAudioNoCall ==
    \A i \in Invocations :
        (pc[i] # "idle" /\ PresentNotAudio(event[i])) => calls[i] = <<>>

\* C5, amended: no notification whose contentType is non-empty and does not
\* start with "audio/" reaches the recognition call; one whose contentType is
\* absent or empty, and whose name is non-empty, is not filtered out.
C5_NonEmptyNotAudioNoCall ==
    \A i \in Invocations :
        pc[i] # "idle" =>
            /\ (PresentNotAudio(event[i]) /\ event[i].content_type # Some(<<>>))
                    => calls[i] = <<>>
            /\ (event[i].content_type \in {None, Some(<<>>)}
                    /\ Truthy(event[i].name))
                    => ~FilteredOut(i)

\* "audio", which lacks the slash, was filtered out.
C5_Witness ==
    \E i \in Invocations :
        /\ FilteredOut(i)
        /\ event[i].content_type = Some(AUDIO_NO_SLASH)
        /\ Truthy(event[i].name)
        /\ Logged(i, "Skipping non-audio file")

\* C3: when the recognition call fails, or the wait on its operation fails
\* or times out, the invocation ends with that exception uncaught: it has
\* attempted neither write, it sent the recognition call once, and it takes
\* no further step.
C3_RecognitionFailureIsFatal ==
    /\ [](\A i \in Invocations :
            exception[i] # "" =>
                /\ exception[i] \in {"recognize failed", "operation failed",
                                     "timeout"}
                /\ pc[i] = "raised"
                /\ response[i] = None
                /\ ~TranscriptAttempted(i) /\ ~TurnsAttempted(i)
                /\ Len(calls[i]) = 1)
    /\ [][\A i \in Invocations :
            pc[i] = "raised" =>
                /\ pc'[i] = "raised"
                /\ calls'[i] = calls[i]
                /\ log'[i] = log[i]]_vars

\* One invocation's wait has timed out while the store is still empty.
C3_Witness ==
    \E i \in Invocations :
        /\ pc[i] = "raised"
        /\ exception[i] = "timeout"
        /\ Len(calls[i]) = 1
        /\ store = <<>>

\* C4: after a completed recognition each of the two writes is attempted
\* whatever became of the other, and a failed write neither makes the
\* invocation fail nor sends the recognition call again.
C4_WritesAreIndependent ==
    /\ [](\A i \in Invocations :
            /\ (TranscriptFailed(i) \/ TurnsFailed(i)) =>
                    /\ exception[i] = ""
                    /\ pc[i] \in {"save_speaker_turns", "returned"}
                    /\ Len(calls[i]) = 1
            /\ pc[i] = "save_speaker_turns" => TranscriptAttempted(i)
            /\ (pc[i] = "returned" /\ response[i] # None) =>
                    TranscriptAttempted(i) /\ TurnsAttempted(i))
    /\ [][\A i \in Invocations :
            /\ (pc[i] = "save_transcript" /\ pc'[i] # pc[i]) =>
                    pc'[i] = "save_speaker_turns"
            /\ (pc[i] = "save_speaker_turns" /\ pc'[i] # pc[i]) =>
                    pc'[i] = "returned" /\ TurnsAttempted(i)']_vars

\* The transcript write failed and the speaker turns were written all the
\* same.
C4_Witness ==
    \E i \in Invocations :
        /\ pc[i] = "returned"
        /\ TranscriptFailed(i)
        /\ TurnsWritten(i)
        /\ HasObject(TimestampName(event[i]))
        /\ ~HasObject(TranscriptName(event[i]))

\* A notification the filter is to reject: its name is absent or empty, or
\* its content type is non-empty and does not start with "audio/".
Rejected(e) ==
    \/ e.name \in {None, Some(<<>>)}
    \/ PresentNotAudio(e) /\ e.content_type # Some(<<>>)

\* i takes a step of an invocation the filter rejects.
RejectedStep(i) == pc'[i] # pc[i] /\ Rejected(event'[i])

\* C7, as stated: an invocation the filter rejects changes nothing but the
\* log: the store, the calls made to the recogniser and the two client
\* handles stay as they were.
C7_RejectedChangesNothing ==
    [][\A i \in Invocations :
        RejectedStep(i) =>
            UNCHANGED <<store, calls, speech_client, storage_client>>]_vars

\* C7, amended: an invocation the filter rejects changes neither the store
\* nor the calls made to the recogniser; it does set a client handle, to the
\* client it constructs after finding the handle unset.
C7_RejectedChangesNoStoreNoCalls ==
    [][\A i \in Invocations :
        RejectedStep(i) =>
            /\ UNCHANGED <<store, calls>>
            /\ speech_client' # speech_client =>
                    pc[i] = "init_speech_client" /\ speech_client' = i
            /\ storage_client' # storage_client =>
                    pc[i] = "init_storage_client" /\ storage_client' = i]_vars

\* A rejected invocation has returned, leaving behind the two clients it
\* constructed and nothing else.
C7_Witness ==
    \E i \in Invocations :
        /\ pc[i] = "returned"
        /\ event[i].content_type = Some(TEXT_PLAIN)
        /\ speech_client = i /\ storage_client = i
        /\ store = <<>>
        /\ \A j \in Invocations : calls[j] = <<>>

\* C10: each client is constructed once: a handle that is set is never
\* assigned again, under every interleaving of the invocations.
C10_ClientsConstructedOnce ==
    [][/\ speech_client # NoClient => speech_client' = speech_client
       /\ storage_client # NoClient => storage_client' = storage_client]_vars

=============================================================================
